---- MODULE Spec2Model ----
(***************************************************************************)
(* Model of the Behance freelancer scraper:                                *)
(*   src/src/runner.py                  main (settings merge, exit codes)  *)
(*   src/src/extractors/behance_parser.py  BehanceScraper.run and the      *)
(*                                      crawl frontier generator           *)
(*   src/src/extractors/utils_time.py   sleep_with_jitter,                 *)
(*                                      validate_delay_range               *)
(*   src/src/outputs/exporters.py       ExportManager.export               *)
(*                                                                         *)
(* Four specifications share the variables:                                *)
(*   Spec / FairSpec  one execution of main: settings merge, the run loop  *)
(*                    interleaved with the frontier generator, export.     *)
(*   SpecParse        _parse_search_page_for_profiles applied to one       *)
(*                    search page of a frontier invocation.                *)
(*   SpecJitter       sleep_with_jitter applied to arbitrary bounds.       *)
(*   SpecExtract      _extract_display_name and _extract_location applied  *)
(*                    to one profile page.                                 *)
(*                                                                         *)
(* Durations are integers counting half seconds (0.5 s = 1, 1.0 s = 2,     *)
(* 3.0 s = 6).  A URL is the path of the resolved absolute URL, split at   *)
(* "/" without the leading empty piece: /alice is <<"alice">>, /alice/ is  *)
(* <<"alice", "">>, the site root is <<>>.  The text of an element of a    *)
(* profile page is the sequence of its characters.                         *)
(***************************************************************************)
EXTENDS Integers, Sequences, FiniteSets, TLC

VARIABLES
    pc,            \* position of main / run: main, next, got, export, exporting, exit, crashed
    gpc,           \* position of the frontier generator: idle, loop, suspended, done, abandoned
    settingsDelay, \* settings["delay_range"] as read by main
    config,        \* BehanceScraperConfig: delay_range, max_pages
    max_profiles,  \* argument of run
    page,          \* loop variable of _iterate_profile_urls
    urls,          \* local `urls` of _iterate_profile_urls
    idx,           \* position of `for url in urls` (number of urls yielded of this page)
    profile_url,   \* loop variable of run
    seen_urls,     \* local `seen_urls` of run
    profiles,      \* local `profiles` of run
    delay,         \* SpecJitter: value returned by sleep_with_jitter
    runRaised,     \* scraper.run raised into main
    formats,       \* main's normalised format list
    fmtIdx,        \* position of `for fmt in formats` in export
    written,       \* extensions of the files written so far
    exportErr,     \* none, format (ExportFormatError), other
    exitCode,      \* value returned by main; NoCode while it has not returned
    crashCause,    \* what raised out of main uncaught: none, default_max_profiles, max_pages, makedirs
    trace,         \* history: network requests, yields and pauses of the run, in order
    html,          \* SpecParse: anchors of the search page being parsed
    earlier,       \* SpecParse: URLs the frontier yielded on the pages before it
    parsed,        \* SpecParse: 1 once the page is parsed
    jmin,          \* SpecJitter: argument min_seconds
    jmax,          \* SpecJitter: argument max_seconds
    jpc,           \* SpecJitter: off, call, returned, raised
    soup,          \* SpecExtract: the elements of the profile page the extractors look up
    display_name,  \* SpecExtract: local `display_name` of _scrape_profile
    location,      \* SpecExtract: local `location` of _scrape_profile
    xpc            \* SpecExtract: off, name, location, done

vars == <<pc, gpc, settingsDelay, config, max_profiles, page, urls, idx, profile_url,
          seen_urls, profiles, delay, runRaised, formats, fmtIdx, written, exportErr,
          exitCode, crashCause, trace, html, earlier, parsed, jmin, jmax, jpc,
          soup, display_name, location, xpc>>

mainVars == <<pc, gpc, settingsDelay, config, max_profiles, page, urls, idx, profile_url,
              seen_urls, profiles, runRaised, formats, fmtIdx, written, exportErr,
              exitCode, crashCause, trace>>
parseVars == <<html, earlier, parsed>>
jitterVars == <<jmin, jmax, jpc>>
extractVars == <<soup, display_name, location, xpc>>

-----------------------------------------------------------------------------
(* Bounds of the model *)

MaxPagesBound == 2      \* settings max_pages ranges over -1 .. MaxPagesBound
MaxProfilesBound == 2   \* max_profiles ranges over 0 .. MaxProfilesBound
MaxAnchors == 3         \* anchors of one search page
MaxFormats == 2         \* entries of --formats
MaxNeg == 2             \* sleep_with_jitter bounds range over -MaxNeg .. MaxDelay
MaxDelay == 3
MaxSpans == 2           \* <span> elements inside the <header> of a profile page

-----------------------------------------------------------------------------
(* Helpers *)

Max(a, b) == IF a >= b THEN a ELSE b
Min(a, b) == IF a <= b THEN a ELSE b
Range(s) == {s[i] : i \in 1..Len(s)}
SeqsUpTo(S, n) == UNION {[1..k -> S] : k \in 0..n}
NoUrl == <<>>
NoCode == 0 - 1
NoDelay == 0 - 1

-----------------------------------------------------------------------------
(* utils_time.py *)

\* max(x, 0.0) without the clamp: a negative bound is kept
ClampKeep(x) == x
\* utils_time.py:21-22   max(min_seconds, 0.0), max(max_seconds, 0.0)
Clamp(x) == Max(x, 0)

\* utils_time.py:14-30   the bounds after clamping (only when one is negative) and swapping
JitterBounds(a, b) ==
    LET neg == a < 0 \/ b < 0
        lo  == IF neg THEN Clamp(a) ELSE a
        hi  == IF neg THEN Clamp(b) ELSE b
    IN  IF hi < lo THEN <<hi, lo>> ELSE <<lo, hi>>

\* random.uniform(a, b) = a + (b - a) * random(): a value between the two, in either order
Uniform(a, b) == Min(a, b) .. Max(a, b)

\* utils_time.py:8-35   the delays sleep_with_jitter can draw
sleep_with_jitter(a, b) == Uniform(JitterBounds(a, b)[1], JitterBounds(a, b)[2])

\* time.sleep(delay) raises ValueError for a negative delay
SleepRaises(d) == d < 0

\* utils_time.py:37-53
validate_delay_range(r) ==
    LET a  == Max(0, r[1])
        b  == Max(0, r[2])
        lo == IF b < a THEN b ELSE a
        hi == IF b < a THEN a ELSE b
    IN  IF lo = 0 /\ hi = 0 THEN <<1, 2>> ELSE <<lo, hi>>

-----------------------------------------------------------------------------
(* behance_parser.py: parsing a search page *)

\* An anchor's href: `rooted` tells "/alice" from "alice"; both resolve against
\* base_url + "/" to the same absolute URL.
Href(rooted, path) == [rooted |-> rooted, path |-> path]

\* hrefs of the pages parsed in SpecParse
ParseHrefs ==
    { Href(TRUE, <<"alice">>), Href(FALSE, <<"alice">>), Href(TRUE, <<"bob">>),
      Href(TRUE, <<"alice", "">>), Href(TRUE, <<"search">>), Href(TRUE, <<"Search">>),
      Href(TRUE, <<"alice", "projects">>), Href(TRUE, <<>>) }

\* hrefs of the search pages served to a whole run
SiteHrefs == { Href(TRUE, <<"alice">>), Href(TRUE, <<"bob">>), Href(TRUE, <<"Search">>) }

\* behance_parser.py:143   urljoin(base_url + "/", href): the path of the absolute URL
Resolve(h) == h.path

\* behance_parser.py:147   [s for s in parsed.path.split("/") if s]
Segments(path) == SelectSeq(path, LAMBDA s : s # "")

\* str.lower() on the segments of the model
Lower(s) == IF s = "Search" THEN "search" ELSE s

Denylist == {"search", "collections", "galleries"}

\* the denylist test without lower-casing
IsDeniedExact(seg) == seg \in Denylist
\* behance_parser.py:152   segments[0].lower() in {"search", "collections", "galleries"}
IsDenied(seg) == Lower(seg) \in Denylist

\* behance_parser.py:146-153   the anchor passes the two `continue` filters
IsCandidate(h) ==
    LET segments == Segments(Resolve(h))
    IN  Len(segments) = 1 /\ ~IsDenied(segments[1])

\* behance_parser.py:140-158   the loop over the anchors from position i, with the set `seen`
RECURSIVE ParseFrom(_, _, _)
ParseFrom(anchors, i, seen) ==
    IF i > Len(anchors) THEN <<>>
    ELSE LET full_url == Resolve(anchors[i])
         IN  IF ~IsCandidate(anchors[i]) THEN ParseFrom(anchors, i + 1, seen)
             ELSE IF full_url \notin seen
                  THEN <<full_url>> \o ParseFrom(anchors, i + 1, seen \cup {full_url})
                  ELSE ParseFrom(anchors, i + 1, seen)

\* the set `seen` carried over from the pages parsed before
PageSeenKept == earlier
\* behance_parser.py:138   seen: Set[str] = set(), local to one parse
PageSeen == {}

\* behance_parser.py:128-158   the URLs one search page yields, in order
ParseSearchPage(anchors) == ParseFrom(anchors, 1, PageSeen)

-----------------------------------------------------------------------------
(* behance_parser.py: run and the frontier *)

\* behance_parser.py:209-212
ExtractUsername(url) ==
    LET segments == Segments(url)
    IN  IF segments = <<>> THEN "" ELSE segments[Len(segments)]

\* behance_parser.py:186-199   the part of the record that depends on the URL
ProfileRecord(url) == [url |-> url, username |-> ExtractUsername(url)]

\* the duplicate test forgotten
AlreadySeenNever(url, seen) == FALSE
\* behance_parser.py:61   profile_url in seen_urls
AlreadySeen(url, seen) == url \in seen

\* the URL is recorded as seen only once its scrape succeeded
SeenAfterOnlyOk(seen, url, outcome) == IF outcome = "ok" THEN seen \cup {url} ELSE seen
\* behance_parser.py:63   seen_urls.add(profile_url), before the scrape and whatever
\* its outcome
SeenAfter(seen, url, outcome) == seen \cup {url}

\* behance_parser.py:75   len(profiles) >= max_profiles
CapReached(profs, cap) == Len(profs) >= cap

\* a failed scrape emits a record all the same
RecordsAfterAlways(profs, url, outcome) == Append(profs, ProfileRecord(url))
\* behance_parser.py:66-73   profiles after the scrape of url ended with `outcome`
RecordsAfter(profs, url, outcome) ==
    IF outcome = "ok" THEN Append(profs, ProfileRecord(url)) ELSE profs

\* the page budget off by one
PageInBudgetPlusOne(p, maxPages) == p <= maxPages + 1
\* behance_parser.py:93   range(1, max_pages + 1)
PageInBudget(p, maxPages) == p >= 1 /\ p <= maxPages

\* an empty page does not stop the frontier
EmptyPageStopsNever(us) == FALSE
\* behance_parser.py:106   if not urls: break
EmptyPageStops(us) == us = <<>>

\* behance_parser.py:110   `for url in urls` has a URL left after the first i
HasMoreUrls(i, us) == i < Len(us)

\* outcomes of _scrape_profile: a record, absent markup (RuntimeError), any other error
ScrapeOutcomes == {"ok", "absent", "error"}

\* history events
Ev(kind, p, url, cands, result, have) ==
    [kind |-> kind, page |-> p, url |-> url, cands |-> cands, result |-> result, have |-> have]
EvPage(p, cands, result, have) == Ev("page", p, NoUrl, cands, result, have)
EvYield(p, url, have) == Ev("yield", p, url, <<>>, "ok", have)
EvProfile(p, url, result, have) == Ev("profile", p, url, <<>>, result, have)
EvPause(p, have) == Ev("pause", p, NoUrl, <<>>, "ok", have)

-----------------------------------------------------------------------------
(* runner.py and exporters.py: helpers *)

\* settings["delay_range"]: `valid` is the outcome of the test of runner.py:127-131
SettingsDelays ==
    { [valid |-> TRUE, value |-> <<0, 0>>], [valid |-> TRUE, value |-> <<1, 2>>],
      [valid |-> FALSE, value |-> <<0, 0>>] }

\* runner.py:126-133, 141   the delay range handed to BehanceScraper
DelayFromSettings(sd) == IF sd.valid THEN sd.value ELSE <<2, 6>>

\* settings["max_pages"], settings["default_max_profiles"]: a number of `values`, or a
\* value that is no number (such as "five" or null), for which int() raises.  Absent
\* keys, which give the defaults 5 and 50 of load_settings, are not drawn.
IntSettings(values) ==
    {[valid |-> TRUE, value |-> v] : v \in values} \cup {[valid |-> FALSE, value |-> 0]}

\* runner.py:123, 136   int(value) raises ValueError or TypeError
IntRaises(s) == ~s.valid

\* runner.py:123   args.max_profiles or int(settings["default_max_profiles"]);
\* an absent argument (None) and 0 are both falsy and stand as 0 here
MaxProfilesFrom(argValue, settingsValue) == IF argValue # 0 THEN argValue ELSE settingsValue

\* entries of args.formats.split(",")
RawFormats == {" CSV ", "", "pdf"}

\* fmt.strip().lower() on the entries of the model
StripLower(f) == IF f = " CSV " THEN "csv" ELSE f

\* runner.py:160-162
NormalizeFormats(raw) ==
    LET kept == SelectSeq(raw, LAMBDA f : StripLower(f) # "")
        fs   == [i \in 1..Len(kept) |-> StripLower(kept[i])]
    IN  IF fs = <<>> THEN <<"json">> ELSE fs

\* a writer exists for pdf as well
SupportedWithPdf(fmt) == fmt \in {"json", "csv", "xlsx", "excel", "html", "pdf"}
\* exporters.py:50-57   the formats export has a writer for
Supported(fmt) == fmt \in {"json", "csv", "xlsx", "excel", "html"}

\* exporters.py:66, 83, 93, 103   extension of the file written for fmt
Extension(fmt) == IF fmt = "excel" THEN "xlsx" ELSE fmt

\* the codes of the two export failures exchanged
ExitCodeSwapped(raised, err) ==
    IF raised THEN 1 ELSE IF err = "format" THEN 3 ELSE IF err = "other" THEN 2 ELSE 0
\* runner.py:145-176   the value main returns
ExitCodeFor(raised, err) ==
    IF raised THEN 1 ELSE IF err = "format" THEN 2 ELSE IF err = "other" THEN 3 ELSE 0

-----------------------------------------------------------------------------
(* behance_parser.py: field extractors *)

Whitespace == {" ", "\n"}

\* str.split(): the maximal runs of non-whitespace characters of text[i..], in order;
\* `word` is the run being read
RECURSIVE SplitWords(_, _, _)
SplitWords(text, i, word) ==
    LET done == IF word = <<>> THEN <<>> ELSE <<word>>
    IN  IF i > Len(text) THEN done
        ELSE IF text[i] \in Whitespace THEN done \o SplitWords(text, i + 1, <<>>)
        ELSE SplitWords(text, i + 1, Append(word, text[i]))

Words(text) == SplitWords(text, 1, <<>>)

\* " ".join(words)
RECURSIVE JoinWords(_)
JoinWords(words) ==
    IF words = <<>> THEN <<>>
    ELSE IF Len(words) = 1 THEN words[1]
    ELSE words[1] \o <<" ">> \o JoinWords(Tail(words))

\* behance_parser.py:221-225   _clean_text
CleanText(text) == IF text = <<>> THEN <<>> ELSE JoinWords(Words(text))

\* behance_parser.py:240   title.string.split("|")[0]
BeforeBar(text) ==
    LET bars == {i \in 1..Len(text) : text[i] = "|"}
    IN  IF bars = {} THEN text
        ELSE SubSeq(text, 1, (CHOOSE i \in bars : \A j \in bars : i <= j) - 1)

\* what soup.find returns: no element (None), or the element with its text
NoElement == [present |-> FALSE, text |-> <<>>]
Element(texts) == {NoElement} \cup {[present |-> TRUE, text |-> t] : t \in texts}

\* what soup.find("header") returns: None, or the header with the texts of its spans
NoHeader == [present |-> FALSE, spans |-> <<>>]
Header(texts) ==
    {NoHeader} \cup {[present |-> TRUE, spans |-> sp] : sp \in SeqsUpTo(texts, MaxSpans)}

\* behance_parser.py:252   the class names looked up, in this order
ClassNames == <<"Location", "e-location", "UserInfo-location">>

\* texts of the elements of the pages explored
RawBlank == <<" ", "\n">>
RawName == <<" ", "A", " ", " ", "L">>
RawCity == <<"O", ",", "\n", " ", "N", " ">>
RawLong == <<"a", " ", "b", " ", "c", " ", "d", " ", "e", ",", " ", "f">>
RawTitle == <<"A", " ", "L", " ", "|", " ", "B">>
RawBlankTitle == <<" ", "|", " ", "B">>

Soups ==
    [itempropName    : Element({RawBlank, RawName}),
     h1              : Element({RawBlank, RawName}),
     title           : Element({<<>>, RawBlankTitle, RawTitle}),
     addressLocality : Element({RawBlank, RawCity}),
     byClass         : [Range(ClassNames) -> Element({RawBlank, RawCity})],
     header          : Header({RawName, RawCity, RawLong})]

NoSoup ==
    [itempropName |-> NoElement, h1 |-> NoElement, title |-> NoElement,
     addressLocality |-> NoElement, byClass |-> [c \in Range(ClassNames) |-> NoElement],
     header |-> NoHeader]

\* behance_parser.py:227-243   _extract_display_name; an element found is truthy whatever
\* its text, title.string is None for a title without text
DisplayNameOf(s) ==
    IF s.itempropName.present THEN CleanText(s.itempropName.text)
    ELSE IF s.h1.present THEN CleanText(s.h1.text)
    ELSE IF s.title.present /\ s.title.text # <<>> THEN CleanText(BeforeBar(s.title.text))
    ELSE <<>>

\* behance_parser.py:251-254   the first class name of ClassNames[i..] an element has
RECURSIVE FirstByClass(_, _)
FirstByClass(s, i) ==
    IF i > Len(ClassNames) THEN NoElement
    ELSE IF s.byClass[ClassNames[i]].present THEN s.byClass[ClassNames[i]]
    ELSE FirstByClass(s, i + 1)

\* behance_parser.py:262   "," in text and len(text.split()) <= 5
SpanMatches(text) == (\E i \in 1..Len(text) : text[i] = ",") /\ Len(Words(text)) <= 5

\* behance_parser.py:259-263   the cleaned text of the first span of spans[i..] that matches
RECURSIVE FirstSpan(_, _)
FirstSpan(spans, i) ==
    IF i > Len(spans) THEN <<>>
    ELSE IF SpanMatches(CleanText(spans[i])) THEN CleanText(spans[i])
    ELSE FirstSpan(spans, i + 1)

\* behance_parser.py:245-265   _extract_location
LocationOf(s) ==
    IF s.addressLocality.present THEN CleanText(s.addressLocality.text)
    ELSE IF FirstByClass(s, 1).present THEN CleanText(FirstByClass(s, 1).text)
    ELSE IF s.header.present THEN FirstSpan(s.header.spans, 1)
    ELSE <<>>

-----------------------------------------------------------------------------
(* Initial states *)

MainIdle ==
    /\ pc = "off" /\ gpc = "idle"
    /\ settingsDelay = [valid |-> FALSE, value |-> <<0, 0>>]
    /\ config = [delay_range |-> <<0, 0>>, max_pages |-> 0]
    /\ max_profiles = 0 /\ page = 0 /\ urls = <<>> /\ idx = 0 /\ profile_url = NoUrl
    /\ seen_urls = {} /\ profiles = <<>> /\ runRaised = FALSE
    /\ formats = <<>> /\ fmtIdx = 0 /\ written = <<>> /\ exportErr = "none"
    /\ exitCode = NoCode /\ crashCause = "none" /\ trace = <<>>

ParseIdle == html = <<>> /\ earlier = {} /\ parsed = 0

JitterIdle == jmin = 0 /\ jmax = 0 /\ jpc = "off"

ExtractIdle == soup = NoSoup /\ display_name = <<>> /\ location = <<>> /\ xpc = "off"

\* main is about to start
Init ==
    /\ pc = "main" /\ gpc = "idle"
    /\ settingsDelay = [valid |-> FALSE, value |-> <<0, 0>>]
    /\ config = [delay_range |-> <<0, 0>>, max_pages |-> 0]
    /\ max_profiles = 0 /\ page = 0 /\ urls = <<>> /\ idx = 0 /\ profile_url = NoUrl
    /\ seen_urls = {} /\ profiles = <<>> /\ runRaised = FALSE
    /\ formats = <<>> /\ fmtIdx = 0 /\ written = <<>> /\ exportErr = "none"
    /\ exitCode = NoCode /\ crashCause = "none" /\ trace = <<>>
    /\ delay = NoDelay
    /\ ParseIdle /\ JitterIdle /\ ExtractIdle

-----------------------------------------------------------------------------
(* Actions of main *)

\* runner.py:116-149 and behance_parser.py:34-47, 57-58: main merges the settings,
\* constructs the scraper and calls run, which starts iterating the frontier.  The two
\* int() conversions are outside any try: a value int() rejects ends main there.  The
\* conversion of default_max_profiles is evaluated only when --max-profiles is falsy.
Main ==
    /\ pc = "main"
    /\ \E sd \in SettingsDelays, mp \in IntSettings((0 - 1)..MaxPagesBound),
          am \in 0..MaxProfilesBound, sm \in IntSettings(0..MaxProfilesBound) :
          IF am = 0 /\ IntRaises(sm)
          THEN /\ crashCause' = "default_max_profiles" /\ pc' = "crashed"
               /\ UNCHANGED <<settingsDelay, config, max_profiles, profiles, seen_urls,
                              page, gpc>>
          ELSE IF IntRaises(mp)
          THEN /\ crashCause' = "max_pages" /\ pc' = "crashed"
               /\ UNCHANGED <<settingsDelay, config, max_profiles, profiles, seen_urls,
                              page, gpc>>
          ELSE /\ settingsDelay' = sd
               /\ config' = [delay_range |-> DelayFromSettings(sd), max_pages |-> mp.value]
               /\ max_profiles' = MaxProfilesFrom(am, sm.value)
               /\ profiles' = <<>> /\ seen_urls' = {}
               /\ page' = 1 /\ gpc' = "loop" /\ pc' = "next"
               /\ UNCHANGED crashCause
    /\ UNCHANGED <<urls, idx, profile_url, delay, runRaised, formats, fmtIdx, written,
                   exportErr, exitCode, trace, parseVars, jitterVars, extractVars>>

\* behance_parser.py:93-108: the frontier, asked for its next URL at the head of its
\* page loop, fetches and parses the next search page.  The fetch yields absent markup,
\* or markup with some anchors, or an error that is not a RequestException (or one
\* raised by the parse, such as urljoin's ValueError), which leaves run.  Absent markup
\* and an empty page end the generator, and with it run's loop (behance_parser.py:79).
FetchSearchPage ==
    /\ pc = "next" /\ gpc = "loop"
    /\ PageInBudget(page, config.max_pages)
    /\ \/ /\ trace' = Append(trace, EvPage(page, <<>>, "absent", Len(profiles)))
          /\ gpc' = "done" /\ pc' = "export"
          /\ UNCHANGED <<urls, idx, runRaised, exitCode>>
       \/ /\ trace' = Append(trace, EvPage(page, <<>>, "raise", Len(profiles)))
          /\ gpc' = "done" /\ pc' = "exit"
          /\ runRaised' = TRUE
          /\ exitCode' = ExitCodeFor(TRUE, exportErr)
          /\ UNCHANGED <<urls, idx>>
       \/ \E anchors \in SeqsUpTo(SiteHrefs, MaxAnchors) :
             LET us == ParseSearchPage(anchors)
             IN  /\ urls' = us
                 /\ idx' = 0
                 /\ trace' = Append(trace, EvPage(page, us, "ok", Len(profiles)))
                 /\ gpc' = IF EmptyPageStops(us) THEN "done" ELSE "suspended"
                 /\ pc' = IF EmptyPageStops(us) THEN "export" ELSE "next"
                 /\ UNCHANGED <<runRaised, exitCode>>
    /\ UNCHANGED <<settingsDelay, config, max_profiles, page, profile_url, seen_urls,
                   profiles, delay, formats, fmtIdx, written, exportErr, parseVars,
                   jitterVars, extractVars, crashCause>>

\* behance_parser.py:93: range(1, max_pages + 1) is exhausted; the generator ends and
\* run returns its profiles (behance_parser.py:79)
FrontierExhausted ==
    /\ pc = "next" /\ gpc = "loop"
    /\ ~PageInBudget(page, config.max_pages)
    /\ gpc' = "done" /\ pc' = "export"
    /\ UNCHANGED <<settingsDelay, config, max_profiles, page, urls, idx, profile_url,
                   seen_urls, profiles, delay, runRaised, formats, fmtIdx, written,
                   exportErr, exitCode, trace, parseVars, jitterVars, extractVars, crashCause>>

\* behance_parser.py:110-111: the frontier, inside `for url in urls`, yields the next
\* URL of the page to run's loop
YieldNext ==
    /\ pc = "next" /\ gpc = "suspended"
    /\ HasMoreUrls(idx, urls)
    /\ idx' = idx + 1 /\ profile_url' = urls[idx + 1]
    /\ trace' = Append(trace, EvYield(page, urls[idx + 1], Len(profiles)))
    /\ pc' = "got"
    /\ UNCHANGED <<gpc, settingsDelay, config, max_profiles, page, urls, seen_urls,
                   profiles, delay, runRaised, formats, fmtIdx, written, exportErr,
                   exitCode, parseVars, jitterVars, extractVars, crashCause>>

\* behance_parser.py:113-114: the page's URLs are all yielded; the frontier sleeps
\* (the delay returned is discarded) and goes back to the head of the page loop.  A
\* ValueError of time.sleep would leave run.
Pause ==
    /\ pc = "next" /\ gpc = "suspended"
    /\ ~HasMoreUrls(idx, urls)
    /\ trace' = Append(trace, EvPause(page, Len(profiles)))
    /\ \E d \in sleep_with_jitter(config.delay_range[1], config.delay_range[2]) :
          IF SleepRaises(d)
          THEN /\ gpc' = "done" /\ pc' = "exit"
               /\ runRaised' = TRUE
               /\ exitCode' = ExitCodeFor(TRUE, exportErr)
               /\ page' = page
          ELSE /\ page' = page + 1 /\ gpc' = "loop"
               /\ UNCHANGED <<pc, runRaised, exitCode>>
    /\ UNCHANGED <<settingsDelay, config, max_profiles, urls, idx, profile_url,
                   seen_urls, profiles, delay, formats, fmtIdx, written, exportErr,
                   parseVars, jitterVars, extractVars, crashCause>>

\* behance_parser.py:61-62: a URL seen before is skipped
SkipSeen ==
    /\ pc = "got"
    /\ AlreadySeen(profile_url, seen_urls)
    /\ pc' = "next"
    /\ UNCHANGED <<gpc, settingsDelay, config, max_profiles, page, urls, idx, profile_url,
                   seen_urls, profiles, delay, runRaised, formats, fmtIdx, written,
                   exportErr, exitCode, trace, parseVars, jitterVars, extractVars, crashCause>>

\* behance_parser.py:63-77 and 164-202: a new URL is recorded as seen and scraped; a
\* failure is caught and skipped; a record is appended and the cap tested
ScrapeProfile ==
    /\ pc = "got"
    /\ ~AlreadySeen(profile_url, seen_urls)
    /\ \E outcome \in ScrapeOutcomes :
          LET profs == RecordsAfter(profiles, profile_url, outcome)
              stop  == outcome = "ok" /\ CapReached(profs, max_profiles)
          IN  /\ seen_urls' = SeenAfter(seen_urls, profile_url, outcome)
              /\ profiles' = profs
              /\ trace' = Append(trace, EvProfile(page, profile_url, outcome, Len(profiles)))
              /\ pc' = IF stop THEN "export" ELSE "next"
              /\ gpc' = IF stop THEN "abandoned" ELSE gpc
    /\ UNCHANGED <<settingsDelay, config, max_profiles, page, urls, idx, profile_url,
                   delay, runRaised, formats, fmtIdx, written, exportErr, exitCode,
                   parseVars, jitterVars, extractVars, crashCause>>

\* runner.py:154-164 and exporters.py:22-26: run has returned; main normalises the
\* formats and constructs the ExportManager, whose makedirs is outside any try
StartExport ==
    /\ pc = "export"
    /\ \E raw \in SeqsUpTo(RawFormats, MaxFormats) \ {<<>>}, dirOk \in BOOLEAN :
          /\ formats' = NormalizeFormats(raw)
          /\ pc' = IF dirOk THEN "exporting" ELSE "crashed"
          /\ crashCause' = IF dirOk THEN crashCause ELSE "makedirs"
          /\ fmtIdx' = IF dirOk THEN 1 ELSE fmtIdx
    /\ UNCHANGED <<gpc, settingsDelay, config, max_profiles, page, urls, idx, profile_url,
                   seen_urls, profiles, delay, runRaised, written, exportErr, exitCode,
                   trace, parseVars, jitterVars, extractVars>>

\* exporters.py:49-59 and runner.py:166-173: export handles the format it has reached
ExportFormat ==
    /\ pc = "exporting"
    /\ fmtIdx <= Len(formats)
    /\ LET fmt == StripLower(formats[fmtIdx])
       IN  IF Supported(fmt)
           THEN \/ /\ written' = Append(written, Extension(fmt))
                   /\ fmtIdx' = fmtIdx + 1
                   /\ UNCHANGED <<pc, exportErr, exitCode>>
                \/ /\ exportErr' = "other"
                   /\ exitCode' = ExitCodeFor(runRaised, "other")
                   /\ pc' = "exit"
                   /\ UNCHANGED <<written, fmtIdx>>
           ELSE /\ exportErr' = "format"
                /\ exitCode' = ExitCodeFor(runRaised, "format")
                /\ pc' = "exit"
                /\ UNCHANGED <<written, fmtIdx>>
    /\ UNCHANGED <<gpc, settingsDelay, config, max_profiles, page, urls, idx, profile_url,
                   seen_urls, profiles, delay, runRaised, formats, trace, parseVars,
                   jitterVars, extractVars, crashCause>>

\* runner.py:175-176: export returned
ExportDone ==
    /\ pc = "exporting"
    /\ fmtIdx > Len(formats)
    /\ exitCode' = ExitCodeFor(runRaised, exportErr)
    /\ pc' = "exit"
    /\ UNCHANGED <<gpc, settingsDelay, config, max_profiles, page, urls, idx, profile_url,
                   seen_urls, profiles, delay, runRaised, formats, fmtIdx, written,
                   exportErr, trace, parseVars, jitterVars, extractVars, crashCause>>

Next ==
    \/ Main
    \/ FetchSearchPage
    \/ FrontierExhausted
    \/ YieldNext
    \/ Pause
    \/ SkipSeen
    \/ ScrapeProfile
    \/ StartExport
    \/ ExportFormat
    \/ ExportDone

Spec == Init /\ [][Next]_vars

\* every step of main takes bounded time (the fetch has a timeout, the sleep is finite)
FairSpec == Spec /\ WF_vars(Next)

-----------------------------------------------------------------------------
(* Reading the history *)

Events(kind) == SelectSeq(trace, LAMBDA e : e.kind = kind)
IsStop(e) == e.kind = "page" /\ (e.result = "absent" \/ (e.result = "ok" /\ e.cands = <<>>))
Failed(e) == e.kind = "profile" /\ e.result # "ok"
RunReturned == pc \in {"export", "exporting", "exit", "crashed"} /\ ~runRaised
RunEnded == pc \in {"export", "exporting", "exit", "crashed"}

RECURSIVE Flatten(_)
Flatten(ss) == IF ss = <<>> THEN <<>> ELSE Head(ss) \o Flatten(Tail(ss))

RECURSIVE Dedup(_)
Dedup(q) ==
    IF q = <<>> THEN <<>>
    ELSE LET front == Dedup(SubSeq(q, 1, Len(q) - 1))
             last  == q[Len(q)]
         IN  IF last \in Range(front) THEN front ELSE Append(front, last)

UrlsOf(evs) == [i \in 1..Len(evs) |-> evs[i].url]

-----------------------------------------------------------------------------
(* Claims about run and the frontier, under Spec *)

\* C1: the url values of the records run has collected are pairwise distinct, and no
\* profile URL is fetched more than once during the run.
C1_DistinctUrls ==
    /\ \A i, j \in 1..Len(profiles) : i # j => profiles[i].url # profiles[j].url
    /\ \A i, j \in 1..Len(trace) :
          (i # j /\ trace[i].kind = "profile" /\ trace[j].kind = "profile")
             => trace[i].url # trace[j].url

\* C1 witness: main has returned after a run in which the frontier yielded one URL on
\* two pages and two records were collected.
C1_Witness ==
    /\ pc = "exit" /\ Len(profiles) = 2
    /\ \E i, j \in 1..Len(trace) :
          /\ i < j /\ trace[i].kind = "yield" /\ trace[j].kind = "yield"
          /\ trace[i].url = trace[j].url /\ trace[i].page # trace[j].page

\* C2: run collects at most max_profiles records, and once a collected record has
\* brought their number to max_profiles no profile fetch, search-page fetch or pause
\* follows.
C2_CapRespected ==
    /\ Len(profiles) <= max_profiles
    /\ \A i, j \in 1..Len(trace) :
          (i < j /\ trace[i].kind = "profile" /\ trace[i].result = "ok"
                 /\ trace[i].have + 1 >= max_profiles)
             => trace[j].kind \notin {"page", "profile", "pause"}

\* C3: a failed scrape emits no record and does not abort the run, which goes on to
\* the next URL; the records are those of the URLs consumed with the failed ones left
\* out; the cap stops the run only on collected records.
C3_FailureIsolated ==
    LET yields   == Events("yield")
        consumed == IF pc = "got" THEN SubSeq(yields, 1, Len(yields) - 1) ELSE yields
        failed   == {e.url : e \in {x \in Range(trace) : Failed(x)}}
        okEvents == SelectSeq(trace, LAMBDA e : e.kind = "profile" /\ e.result = "ok")
    IN  /\ \A i \in 1..Len(profiles) : profiles[i].url \notin failed
        /\ (trace # <<>> /\ Failed(trace[Len(trace)])) => (pc = "next" /\ ~runRaised)
        /\ [i \in 1..Len(profiles) |-> profiles[i].url]
              = Dedup(SelectSeq(UrlsOf(consumed), LAMBDA u : u \notin failed))
        /\ Len(profiles) = Len(okEvents)
        /\ gpc = "abandoned" => Len(okEvents) >= max_profiles

\* C3 witness: main has returned after a run in which one scrape failed and a later one
\* produced a record.
C3_Witness ==
    /\ pc = "exit" /\ ~runRaised
    /\ \E i, j \in 1..Len(trace) :
          i < j /\ Failed(trace[i]) /\ trace[j].kind = "profile" /\ trace[j].result = "ok"

\* C4: the search page whose markup is absent or which has no candidate is the last
\* thing the frontier does: the URLs yielded are exactly the candidates of the pages
\* before it, no page above it is fetched, it is fetched once, and run returns normally.
C4_StopsAtFirstBadPage ==
    \A k \in 1..Len(trace) :
       IsStop(trace[k]) =>
          LET before == SubSeq(trace, 1, k - 1)
              pagesBefore == SelectSeq(before, LAMBDA e : e.kind = "page")
          IN  /\ k = Len(trace)
              /\ UrlsOf(Events("yield"))
                    = Flatten([i \in 1..Len(pagesBefore) |-> pagesBefore[i].cands])
              /\ \A i \in 1..Len(trace) :
                    trace[i].kind = "page" => (trace[i].page <= trace[k].page
                                               /\ (trace[i].page = trace[k].page => i = k))
              /\ gpc = "done" /\ RunReturned /\ exitCode # 1

\* C4 witness: page 2 had absent markup or no candidate after page 1 yielded two URLs.
C4_Witness ==
    /\ trace # <<>> /\ IsStop(trace[Len(trace)]) /\ trace[Len(trace)].page = 2
    /\ Len(Events("yield")) = 2

\* C5, safety part: the k-th search page fetched is page k, and no page above
\* max_pages is fetched.
PagesInOrderWithinBudget ==
    LET pages == Events("page")
    IN  /\ \A k \in 1..Len(pages) : pages[k].page = k
        /\ \A k \in 1..Len(pages) : pages[k].page <= config.max_pages
        /\ Len(pages) <= Max(config.max_pages, 0)

\* C5: one frontier invocation fetches the search pages in increasing order from page
\* 1, each once, never more than max_pages of them (none when max_pages <= 0), and the
\* run always ends.
C5_BudgetAndTermination == [](PagesInOrderWithinBudget) /\ <>RunEnded

\* C5 witness: the run ended after the frontier used its whole budget of two pages.
C5_Witness ==
    /\ RunEnded /\ gpc = "done" /\ config.max_pages = 2
    /\ Len(Events("page")) = 2 /\ trace[Len(trace)].kind = "pause"

\* C6: a pause happens only between two successive search-page fetches: each fetch but
\* the first is directly preceded by exactly one pause, which comes after every yield
\* and profile fetch of the page before, and every pause is directly followed by the
\* fetch of the next search page.
C6_PauseOnlyBetweenPages ==
    /\ \A k \in 1..Len(trace) :
          (trace[k].kind = "page" /\ trace[k].page > 1)
             => /\ k > 1 /\ trace[k - 1].kind = "pause"
                /\ trace[k - 1].page = trace[k].page - 1
                /\ Len(SelectSeq(trace, LAMBDA e : e.kind = "pause"
                                                    /\ e.page = trace[k].page - 1)) = 1
    /\ \A k \in 1..Len(trace) :
          trace[k].kind = "pause"
             => /\ k < Len(trace) => (trace[k + 1].kind = "page"
                                      /\ trace[k + 1].page = trace[k].page + 1)
                /\ k = Len(trace) => ~RunEnded
                /\ \A i \in 1..Len(trace) :
                      (trace[i].kind \in {"yield", "profile"} /\ trace[i].page = trace[k].page)
                         => i < k

\* C9: a (0, 0) delay range in the settings reaches the scraper as (0.5, 1.0): the range
\* the scraper is constructed with is the normalised settings range and is never (0, 0).
C9_ZeroDelayReplaced ==
    (gpc # "idle" /\ settingsDelay.valid)
       => /\ config.delay_range = validate_delay_range(settingsDelay.value)
          /\ config.delay_range # <<0, 0>>

\* C11: an invalid settings value never ends main with an uncaught error: main falls
\* back to the built-in default of that setting (a delay range of 1.0 to 3.0 s) and
\* goes on to construct the scraper.
C11_SettingsFallBack ==
    /\ crashCause \notin {"default_max_profiles", "max_pages"}
    /\ (gpc # "idle" /\ ~settingsDelay.valid) => config.delay_range = <<2, 6>>

C13_FailedNotRetried ==
    \A i \in 1..Len(trace) :
       Failed(trace[i]) =>
          /\ trace[i].url \in seen_urls
          /\ \A j \in (i + 1)..Len(trace) :
                trace[j].kind = "profile" => trace[j].url # trace[i].url

\* C13 witness: main has returned after a run in which the frontier yielded again, on
\* a later page, a URL whose scrape had failed.
C13_Witness ==
    /\ pc = "exit"
    /\ \E i, j \in 1..Len(trace) :
          /\ i < j /\ Failed(trace[i]) /\ trace[j].kind = "yield"
          /\ trace[j].url = trace[i].url /\ trace[j].page > trace[i].page

\* C14: export handles the formats in the order given and tests each only when it
\* reaches it: the files written are those of the formats before the current position,
\* in order, all of them supported; when the unsupported-format error is raised, at
\* the first unsupported position, those before it are written, none after it is, and
\* main returns 2.
C14_ExportInOrder ==
    /\ written = [i \in 1..(fmtIdx - 1) |-> Extension(formats[i])]
    /\ \A i \in 1..Len(written) : written[i] \in {"json", "csv", "xlsx", "html"}
    /\ exportErr = "format" =>
          /\ pc = "exit" /\ exitCode = 2
          /\ fmtIdx \in 1..Len(formats) /\ ~Supported(formats[fmtIdx])
          /\ \A i \in 1..(fmtIdx - 1) : Supported(formats[i])
          /\ Len(written) = fmtIdx - 1

\* C14 witness: for the formats csv, pdf main returned 2 with the csv file written.
C14_Witness ==
    /\ pc = "exit" /\ exitCode = 2
    /\ formats = <<"csv", "pdf">> /\ written = <<"csv">>

-----------------------------------------------------------------------------
(* SpecParse: the frontier parses one search page, after earlier pages of the same
   invocation yielded the URLs of `earlier` *)

InitParse ==
    /\ MainIdle /\ delay = NoDelay /\ JitterIdle /\ ExtractIdle
    /\ html \in SeqsUpTo(ParseHrefs, MaxAnchors)
    /\ earlier \in SUBSET {Resolve(h) : h \in {x \in ParseHrefs : IsCandidate(x)}}
    /\ parsed = 0

\* behance_parser.py:105 with 128-158
ParsePage ==
    /\ pc = "off" /\ parsed = 0
    /\ urls' = ParseSearchPage(html)
    /\ parsed' = 1
    /\ UNCHANGED <<pc, gpc, settingsDelay, config, max_profiles, page, idx, profile_url,
                   seen_urls, profiles, delay, runRaised, formats, fmtIdx, written,
                   exportErr, exitCode, trace, html, earlier, jitterVars, extractVars, crashCause>>

NextParse == ParsePage

SpecParse == InitParse /\ [][NextParse]_vars

\* the resolved URLs of the anchors with exactly one non-empty path segment
OneSegment(anchors) ==
    {Resolve(anchors[i]) : i \in {k \in 1..Len(anchors) : Len(Segments(Resolve(anchors[k]))) = 1}}

\* position of the first anchor resolving to u
FirstAt(anchors, u) ==
    CHOOSE i \in 1..Len(anchors) :
       Resolve(anchors[i]) = u /\ \A j \in 1..(i - 1) : Resolve(anchors[j]) # u

\* us lists each URL of the set `accepted` once, in order of first occurrence in anchors
ListsInFirstOccurrenceOrder(us, anchors, accepted) ==
    /\ Range(us) = accepted
    /\ \A i, j \in 1..Len(us) : i # j => us[i] # us[j]
    /\ \A i, j \in 1..Len(us) : i < j => FirstAt(anchors, us[i]) < FirstAt(anchors, us[j])

\* C7 as stated: the page yields the one-segment URLs whose segment is not one of
\* search, collections, galleries, each once, in order of first occurrence.
C7_YieldsExactDenylist ==
    parsed > 0 =>
       ListsInFirstOccurrenceOrder(urls, html,
          {u \in OneSegment(html) : Segments(u)[1] \notin Denylist})

\* C7 amended: the page yields the one-segment URLs whose segment, lower-cased, is not
\* one of search, collections, galleries, each once, in order of first occurrence,
\* whatever the earlier pages yielded; anchors /alice, /bob, /search yield /alice, /bob.
C7_YieldsLowercasedDenylist ==
    /\ parsed > 0 =>
          ListsInFirstOccurrenceOrder(urls, html,
             {u \in OneSegment(html) : Lower(Segments(u)[1]) \notin Denylist})
    /\ ParseSearchPage(<<Href(TRUE, <<"alice">>), Href(TRUE, <<"bob">>),
                         Href(TRUE, <<"search">>)>>) = << <<"alice">>, <<"bob">> >>

\* C7 witness: the page parsed repeats an anchor, holds the denylisted /Search, and
\* yields a URL an earlier page yielded already.
C7_Witness ==
    /\ parsed = 1 /\ Len(html) = 3 /\ Len(urls) = 1
    /\ \E i \in 1..Len(html) : Segments(Resolve(html[i])) = <<"Search">>
    /\ urls[1] \in earlier
    /\ html[1] = html[2]

-----------------------------------------------------------------------------
(* SpecJitter: one call of sleep_with_jitter *)

InitJitter ==
    /\ MainIdle /\ ParseIdle /\ ExtractIdle
    /\ jmin \in (0 - MaxNeg)..MaxDelay
    /\ jmax \in (0 - MaxNeg)..MaxDelay
    /\ jpc = "call"
    /\ delay = NoDelay

\* utils_time.py:8-35
SleepWithJitter ==
    /\ jpc = "call"
    /\ \E d \in sleep_with_jitter(jmin, jmax) :
          /\ delay' = d
          /\ jpc' = IF SleepRaises(d) THEN "raised" ELSE "returned"
    /\ UNCHANGED <<mainVars, parseVars, jmin, jmax, extractVars>>

NextJitter == SleepWithJitter

SpecJitter == InitJitter /\ [][NextJitter]_vars

\* C8: sleep_with_jitter never raises, and the delay it returns lies between the two
\* bounds taken in either order, a negative bound counting as 0.
C8_DelayInRange ==
    /\ jpc # "raised"
    /\ jpc = "returned" =>
          /\ Min(Max(jmin, 0), Max(jmax, 0)) <= delay
          /\ delay <= Max(Max(jmin, 0), Max(jmax, 0))
          /\ (jmin >= 0 /\ jmax >= 0) => (Min(jmin, jmax) <= delay /\ delay <= Max(jmin, jmax))

\* C8 witness: the call with bounds (1.0, -0.5), inverted and one negative, returned 0.5.
C8_Witness == jpc = "returned" /\ jmin = 2 /\ jmax = 0 - 1 /\ delay = 1

-----------------------------------------------------------------------------
(* SpecExtract: _scrape_profile extracts displayName, then location, from one page *)

InitExtract ==
    /\ MainIdle /\ delay = NoDelay /\ ParseIdle /\ JitterIdle
    /\ soup \in Soups
    /\ display_name = <<>> /\ location = <<>>
    /\ xpc = "name"

\* behance_parser.py:174
ExtractDisplayName ==
    /\ xpc = "name"
    /\ display_name' = DisplayNameOf(soup)
    /\ xpc' = "location"
    /\ UNCHANGED <<mainVars, delay, parseVars, jitterVars, soup, location>>

\* behance_parser.py:175
ExtractLocation ==
    /\ xpc = "location"
    /\ location' = LocationOf(soup)
    /\ xpc' = "done"
    /\ UNCHANGED <<mainVars, delay, parseVars, jitterVars, soup, display_name>>

NextExtract == ExtractDisplayName \/ ExtractLocation

SpecExtract == InitExtract /\ [][NextExtract]_vars

\* the whitespace-normalized text of an element, "" when the element is absent
Normalized(e) == IF e.present THEN CleanText(e.text) ELSE <<>>

\* the normalized result of each heuristic of the displayName cascade, in cascade order
NameHeuristics(s) ==
    <<Normalized(s.itempropName), Normalized(s.h1),
      IF s.title.present THEN CleanText(BeforeBar(s.title.text)) ELSE <<>> >>

\* the normalized result of each heuristic of the location cascade, in cascade order
LocationHeuristics(s) ==
    <<Normalized(s.addressLocality)>>
    \o [i \in 1..Len(ClassNames) |-> Normalized(s.byClass[ClassNames[i]])]
    \o <<IF s.header.present THEN FirstSpan(s.header.spans, 1) ELSE <<>> >>

\* the first non-empty result, "" when there is none
FirstNonEmpty(results) ==
    LET hits == {i \in 1..Len(results) : results[i] # <<>>}
    IN  IF hits = {} THEN <<>>
        ELSE results[CHOOSE i \in hits : \A j \in hits : i <= j]

\* C12: displayName and location are each the normalized result of the first heuristic
\* of the cascade whose normalized result is non-empty, and "" only when no heuristic
\* has a non-empty result; an element that is present with blank text does not end
\* the cascade.
C12_FirstNonEmptyHeuristic ==
    /\ xpc \in {"location", "done"} => display_name = FirstNonEmpty(NameHeuristics(soup))
    /\ xpc = "done" => location = FirstNonEmpty(LocationHeuristics(soup))

====
